---- MODULE Spec2Model ----
(***************************************************************************)
(* Model of mailoney/export_mailoney_logs.py: export_logs() reads every    *)
(* row of the table smtp_sessions of the SQLite store at DB_PATH and       *)
(* writes each row as one JSON line to OUT_PATH.                           *)
(*                                                                         *)
(* The destination file is modelled as the sequence of chunks that         *)
(* json.dump and f.write hand to the file object, in order.  Blocking      *)
(* write errors (disk full) are not modelled; a failure inside the loop is *)
(* the TypeError json.dump raises for a value it cannot encode.            *)
(* The collector process that owns the store changes it only between runs  *)
(* of the exporter.                                                        *)
(***************************************************************************)
EXTENDS Integers, Sequences, FiniteSets, TLC

MaxRows == 3
MaxRuns == 2
MaxChanges == 1

VARIABLES db, columns, table, destWritable, destExists, out,
          pc, connOpen, outOpen, rows, description, i, err, runs, changes,
          db0, destExists0, out0

vars == <<db, columns, table, destWritable, destExists, out,
          pc, connOpen, outOpen, rows, description, i, err, runs, changes,
          db0, destExists0, out0>>

----------------------------------------------------------------------------
(* Values a SQLite column can hold, as the Python objects the driver       *)
(* returns: INTEGER -> int, TEXT -> str, NULL -> None, REAL -> float,      *)
(* BLOB -> bytes.  A float carries its repr, bytes their hex digits.       *)

PyInt(n)   == [typ |-> "int",   n |-> n, s |-> ""]
PyStr(s)   == [typ |-> "str",   n |-> 0, s |-> s]
PyNone     == [typ |-> "None",  n |-> 0, s |-> ""]
PyFloat(r) == [typ |-> "float", n |-> 0, s |-> r]
PyBytes(b) == [typ |-> "bytes", n |-> 0, s |-> b]

Schemas == {<<"id">>, <<"id", "command">>}

(* id is an INTEGER column; command holds whatever the client sent. *)
ColumnValues(col) ==
    IF col = "id" THEN {PyInt(1), PyInt(2)}
    ELSE {PyStr("a"), PyNone, PyFloat("1.5"), PyBytes("ff")}

Values == UNION {ColumnValues(c) : c \in {"id", "command"}}

RowsOf(cols) == {r \in [1..Len(cols) -> Values] :
                    \A k \in 1..Len(cols) : r[k] \in ColumnValues(cols[k])}

RECURSIVE TablesUpTo(_, _)
TablesUpTo(cols, n) ==
    IF n = 0 THEN {<<>>}
    ELSE LET shorter == TablesUpTo(cols, n - 1)
         IN  shorter \cup {Append(t, r) : t \in {u \in shorter : Len(u) = n - 1},
                                          r \in RowsOf(cols)}

StaleContent == <<"{", "\"old\"", ": ", "0", "}", "\n">>

----------------------------------------------------------------------------
(* dict(zip(columns, row)) *)

Min(a, b) == IF a <= b THEN a ELSE b

(* zip that stops one pair early *)
ZipShort(a, b) == [k \in 1..(Min(Len(a), Len(b)) - 1) |-> <<a[k], b[k]>>]

Zip(a, b) == [k \in 1..Min(Len(a), Len(b)) |-> <<a[k], b[k]>>]

DictSetItem(d, key, value) ==
    IF \E j \in 1..Len(d) : d[j][1] = key
    THEN [j \in 1..Len(d) |-> IF d[j][1] = key THEN <<key, value>> ELSE d[j]]
    ELSE Append(d, <<key, value>>)

RECURSIVE DictFrom(_, _)
DictFrom(d, pairs) ==
    IF pairs = <<>> THEN d
    ELSE DictFrom(DictSetItem(d, Head(pairs)[1], Head(pairs)[2]), Tail(pairs))

Dict(pairs) == DictFrom(<<>>, pairs)

----------------------------------------------------------------------------
(* json.dump(log_entry, f): the pure-Python encoder yields chunks that are *)
(* written to f one by one; a value that is not JSON serializable raises   *)
(* TypeError after the chunks before it have been written.                 *)

IntRepr(n) == <<"0", "1", "2", "3", "4", "5", "6", "7", "8", "9">>[n + 1]

Encoder(s) == "\"" \o s \o "\""

Serializable(v) == v.typ \in {"str", "None", "int", "float"}

ValueChunk(v) ==
    CASE v.typ = "str"   -> Encoder(v.s)
      [] v.typ = "None"  -> "null"
      [] v.typ = "int"   -> IntRepr(v.n)
      [] v.typ = "float" -> v.s

RECURSIVE IterencodeItems(_, _, _)
IterencodeItems(items, first, acc) ==
    IF items = <<>> THEN [chunks |-> Append(acc, "}"), ok |-> TRUE]
    ELSE LET key   == Head(items)[1]
             value == Head(items)[2]
             sep   == IF first THEN acc ELSE Append(acc, ", ")
             keyed == sep \o <<Encoder(key), ": ">>
         IN  IF Serializable(value)
             THEN IterencodeItems(Tail(items), FALSE, Append(keyed, ValueChunk(value)))
             ELSE [chunks |-> keyed, ok |-> FALSE]

IterencodeDict(dct) ==
    IF dct = <<>> THEN [chunks |-> <<"{}">>, ok |-> TRUE]
    ELSE IterencodeItems(dct, TRUE, <<"{">>)

JsonDump(obj) == IterencodeDict(obj)

----------------------------------------------------------------------------
TypeOK ==
    /\ db \in {"nodir", "absent", "notable", "table"}
    /\ pc \in {"idle", "connect", "execute", "open", "loop", "close", "done", "failed"}
    /\ err \in {"none", "connect", "query", "open-output", "serialize"}
    /\ connOpen \in BOOLEAN /\ outOpen \in BOOLEAN
    /\ destWritable \in BOOLEAN /\ destExists \in BOOLEAN
    /\ runs \in 0..MaxRuns
    /\ changes \in 0..MaxChanges
    /\ i \in 0..Len(rows)

Init ==
    /\ db \in {"nodir", "absent", "notable", "table"}
    /\ columns \in Schemas
    /\ table \in (IF db = "table" THEN TablesUpTo(columns, MaxRows) ELSE {<<>>})
    /\ destWritable \in BOOLEAN
    /\ \E prior \in {<<FALSE, <<>> >>, <<TRUE, <<>> >>, <<TRUE, StaleContent>>} :
          /\ destExists = prior[1]
          /\ out = prior[2]
    /\ pc = "idle"
    /\ connOpen = FALSE
    /\ outOpen = FALSE
    /\ rows = <<>>
    /\ description = <<>>
    /\ i = 0
    /\ err = "none"
    /\ runs = 0
    /\ changes = 0
    /\ db0 = db
    /\ destExists0 = destExists
    /\ out0 = out

store == <<db, columns, table>>
dest  == <<destWritable, destExists, out>>
ghost == <<db0, destExists0, out0>>

(* The collection process that owns the store inserts a session row. *)
CollectorInsert ==
    /\ pc = "idle"
    /\ db = "table"
    /\ Len(table) < MaxRows
    /\ changes < MaxChanges
    /\ changes' = changes + 1
    /\ \E r \in RowsOf(columns) : table' = Append(table, r)
    /\ UNCHANGED <<db, columns, dest, pc, connOpen, outOpen, rows, description,
                   i, err, runs, ghost>>

(* The collection process deletes its oldest session row. *)
CollectorDelete ==
    /\ pc = "idle"
    /\ db = "table"
    /\ table # <<>>
    /\ changes < MaxChanges
    /\ changes' = changes + 1
    /\ table' = Tail(table)
    /\ UNCHANGED <<db, columns, dest, pc, connOpen, outOpen, rows, description,
                   i, err, runs, ghost>>

(* if __name__ == "__main__": export_logs() *)
Main ==
    /\ pc = "idle"
    /\ runs < MaxRuns
    /\ runs' = runs + 1
    /\ pc' = "connect"
    /\ err' = "none"
    /\ rows' = <<>>
    /\ description' = <<>>
    /\ i' = 0
    /\ db0' = db
    /\ destExists0' = destExists
    /\ out0' = out
    /\ UNCHANGED <<store, dest, connOpen, outOpen, changes>>

(* conn = sqlite3.connect(DB_PATH); cursor = conn.cursor()                 *)
(* The driver opens the path read-write-create: a missing file in an       *)
(* existing directory is created empty, an unopenable path raises.         *)
Connect ==
    /\ pc = "connect"
    /\ IF db = "nodir"
       THEN /\ pc' = "failed"
            /\ err' = "connect"
            /\ UNCHANGED <<db, connOpen>>
       ELSE /\ pc' = "execute"
            /\ connOpen' = TRUE
            /\ db' = IF db = "absent" THEN "notable" ELSE db
            /\ UNCHANGED err
    /\ UNCHANGED <<columns, table, dest, outOpen, rows, description, i, runs, changes, ghost>>

(* a fetch that loses the first row (fetchone before fetchall) *)
ExecuteSkipsFirst ==
    /\ pc = "execute"
    /\ IF db = "table"
       THEN /\ rows' = (IF table = <<>> THEN table ELSE Tail(table))
            /\ description' = columns
            /\ pc' = "open"
            /\ UNCHANGED err
       ELSE /\ pc' = "failed"
            /\ err' = "query"
            /\ UNCHANGED <<rows, description>>
    /\ UNCHANGED <<store, dest, connOpen, outOpen, i, runs, changes, ghost>>

(* a query that raises when the table has no rows *)
ExecuteEmptyFails ==
    /\ pc = "execute"
    /\ IF db = "table" /\ table # <<>>
       THEN /\ rows' = table
            /\ description' = columns
            /\ pc' = "open"
            /\ UNCHANGED err
       ELSE /\ pc' = "failed"
            /\ err' = "query"
            /\ UNCHANGED <<rows, description>>
    /\ UNCHANGED <<store, dest, connOpen, outOpen, i, runs, changes, ghost>>

(* a query whose missing-table error is swallowed *)
ExecuteSwallows ==
    /\ pc = "execute"
    /\ rows' = (IF db = "table" THEN table ELSE <<>>)
    /\ description' = columns
    /\ pc' = "open"
    /\ UNCHANGED err
    /\ UNCHANGED <<store, dest, connOpen, outOpen, i, runs, changes, ghost>>

(* cursor.execute("SELECT * FROM smtp_sessions"); rows = cursor.fetchall() *)
(* columns = [desc[0] for desc in cursor.description]                      *)
Execute ==
    /\ pc = "execute"
    /\ IF db = "table"
       THEN /\ rows' = table
            /\ description' = columns
            /\ pc' = "open"
            /\ UNCHANGED err
       ELSE /\ pc' = "failed"
            /\ err' = "query"
            /\ UNCHANGED <<rows, description>>
    /\ UNCHANGED <<store, dest, connOpen, outOpen, i, runs, changes, ghost>>

(* the destination opened in append mode *)
OpenOutAppend ==
    /\ pc = "open"
    /\ IF destWritable
       THEN /\ destExists' = TRUE
            /\ outOpen' = TRUE
            /\ i' = 0
            /\ pc' = "loop"
            /\ UNCHANGED <<out, err>>
       ELSE /\ pc' = "failed"
            /\ err' = "open-output"
            /\ UNCHANGED <<destExists, out, outOpen, i>>
    /\ UNCHANGED <<store, destWritable, connOpen, rows, description, runs, changes, ghost>>

(* with open(OUT_PATH, "w") as f: *)
OpenOut ==
    /\ pc = "open"
    /\ IF destWritable
       THEN /\ destExists' = TRUE
            /\ out' = <<>>
            /\ outOpen' = TRUE
            /\ i' = 0
            /\ pc' = "loop"
            /\ UNCHANGED err
       ELSE /\ pc' = "failed"
            /\ err' = "open-output"
            /\ UNCHANGED <<destExists, out, outOpen, i>>
    /\ UNCHANGED <<store, destWritable, connOpen, rows, description, runs, changes, ghost>>

(* a loop that empties the destination when a row fails *)
WriteRowRollback ==
    /\ pc = "loop"
    /\ i < Len(rows)
    /\ LET row       == rows[i + 1]
           log_entry == Dict(Zip(description, row))
           dumped    == JsonDump(log_entry)
       IN  IF dumped.ok
           THEN /\ out' = (out \o dumped.chunks) \o <<"\n">>
                /\ i' = i + 1
                /\ UNCHANGED <<pc, err, outOpen>>
           ELSE /\ out' = <<>>
                /\ outOpen' = FALSE
                /\ pc' = "failed"
                /\ err' = "serialize"
                /\ UNCHANGED i
    /\ UNCHANGED <<store, destWritable, destExists, connOpen, rows, description,
                   runs, changes, ghost>>

(* for row in rows: log_entry = dict(zip(columns, row));                   *)
(*                  json.dump(log_entry, f); f.write("\n")                 *)
(* A TypeError from json.dump leaves the with block, which closes f, and   *)
(* then leaves export_logs.                                                *)
WriteRow ==
    /\ pc = "loop"
    /\ i < Len(rows)
    /\ LET row       == rows[i + 1]
           log_entry == Dict(Zip(description, row))
           dumped    == JsonDump(log_entry)
       IN  IF dumped.ok
           THEN /\ out' = (out \o dumped.chunks) \o <<"\n">>
                /\ i' = i + 1
                /\ UNCHANGED <<pc, err, outOpen>>
           ELSE /\ out' = out \o dumped.chunks
                /\ outOpen' = FALSE
                /\ pc' = "failed"
                /\ err' = "serialize"
                /\ UNCHANGED i
    /\ UNCHANGED <<store, destWritable, destExists, connOpen, rows, description,
                   runs, changes, ghost>>

(* end of the loop: the with block closes f *)
ExitWith ==
    /\ pc = "loop"
    /\ i = Len(rows)
    /\ outOpen' = FALSE
    /\ pc' = "close"
    /\ UNCHANGED <<store, dest, connOpen, rows, description, i, err, runs, changes, ghost>>

(* conn.close() *)
CloseConn ==
    /\ pc = "close"
    /\ connOpen' = FALSE
    /\ pc' = "done"
    /\ UNCHANGED <<store, dest, outOpen, rows, description, i, err, runs, changes, ghost>>

(* The process exits; the operating system releases what it still holds. *)
ProcessExit ==
    /\ pc \in {"done", "failed"}
    /\ pc' = "idle"
    /\ connOpen' = FALSE
    /\ rows' = <<>>
    /\ description' = <<>>
    /\ i' = 0
    /\ UNCHANGED <<store, dest, outOpen, err, runs, changes, ghost>>

ExportStep == Connect \/ Execute \/ OpenOut \/ WriteRow \/ ExitWith \/ CloseConn

Next ==
    \/ CollectorInsert
    \/ CollectorDelete
    \/ Main
    \/ Connect
    \/ Execute
    \/ OpenOut
    \/ WriteRow
    \/ ExitWith
    \/ CloseConn
    \/ ProcessExit

Spec == Init /\ [][Next]_vars

----------------------------------------------------------------------------
(* Reading the destination file back: a JSON Lines reader, written         *)
(* independently of the encoder above.                                     *)

RECURSIVE SplitAt(_, _, _)
SplitAt(f, cur, acc) ==
    IF f = <<>> THEN [lines |-> acc, rest |-> cur]
    ELSE IF Head(f) = "\n"
         THEN SplitAt(Tail(f), <<>>, Append(acc, cur))
         ELSE SplitAt(Tail(f), Append(cur, Head(f)), acc)

SplitLines(f) == SplitAt(f, <<>>, <<>>)

JsonString ==
    [c \in {"\"id\"", "\"command\"", "\"old\""} |->
        CASE c = "\"id\""      -> "id"
          [] c = "\"command\"" -> "command"
          [] c = "\"old\""     -> "old"]

JsonValue ==
    [c \in {"null", "0", "1", "2", "1.5", "\"a\""} |->
        CASE c = "null"  -> PyNone
          [] c = "1.5"   -> PyFloat("1.5")
          [] c = "0"     -> PyInt(0)
          [] c = "1"     -> PyInt(1)
          [] c = "2"     -> PyInt(2)
          [] c = "\"a\"" -> PyStr("a")]

ParseFail == [ok |-> FALSE, items |-> <<>>]

RECURSIVE ParseMembers(_, _)
ParseMembers(toks, acc) ==
    IF Len(toks) < 3 THEN ParseFail
    ELSE IF \/ toks[1] \notin DOMAIN JsonString
            \/ toks[2] # ": "
            \/ toks[3] \notin DOMAIN JsonValue
         THEN ParseFail
         ELSE LET acc2 == Append(acc, <<JsonString[toks[1]], JsonValue[toks[3]]>>)
              IN  IF Len(toks) = 3 THEN [ok |-> TRUE, items |-> acc2]
                  ELSE IF toks[4] # ", " THEN ParseFail
                  ELSE ParseMembers(SubSeq(toks, 5, Len(toks)), acc2)

ParseObject(line) ==
    IF line = <<"{}">> THEN [ok |-> TRUE, items |-> <<>>]
    ELSE IF Len(line) < 2 \/ Head(line) # "{" \/ line[Len(line)] # "}"
         THEN ParseFail
         ELSE ParseMembers(SubSeq(line, 2, Len(line) - 1), <<>>)

Keys(items)   == [k \in 1..Len(items) |-> items[k][1]]
Fields(items) == [k \in 1..Len(items) |-> items[k][2]]

(* line is one complete JSON object whose fields are cols, in order, with  *)
(* the values of row                                                       *)
LineIsRow(line, cols, row) ==
    LET p == ParseObject(line)
    IN  /\ p.ok
        /\ Keys(p.items) = cols
        /\ Fields(p.items) = row

(* f is exactly one line per row of tbl, in order, and nothing else *)
FileIsTable(f, cols, tbl) ==
    LET sp == SplitLines(f)
    IN  /\ sp.rest = <<>>
        /\ Len(sp.lines) = Len(tbl)
        /\ \A k \in 1..Len(tbl) : LineIsRow(sp.lines[k], cols, tbl[k])

RowSerializable(row) == \A k \in 1..Len(row) : row[k].typ # "bytes"

Stopped == pc \in {"done", "failed"}

DestUntouched == destExists = destExists0 /\ out = out0

----------------------------------------------------------------------------
(* C1: after a successful export of a table with N rows the destination    *)
(* holds exactly N lines and line k decodes to the values of the k-th row  *)
(* the store returned: no row skipped, duplicated, reordered or split.     *)
Thm_C1_OneLinePerRow ==
    pc = "done" =>
        LET sp == SplitLines(out)
        IN  /\ destExists
            /\ sp.rest = <<>>
            /\ Len(sp.lines) = Len(table)
            /\ \A k \in 1..Len(table) :
                  /\ ParseObject(sp.lines[k]).ok
                  /\ Fields(ParseObject(sp.lines[k]).items) = table[k]

Wit_C1 == pc = "done" /\ Len(table) >= 2 /\ table[1] # table[2]

(* C2: every line written has exactly the table's column names as field    *)
(* names, each once, in declaration order, each with that column's value   *)
(* in that row.                                                            *)
Thm_C2_FieldsAreColumns ==
    (pc \in {"loop", "close", "done"} \/ (pc = "failed" /\ err = "serialize")) =>
        LET sp == SplitLines(out)
        IN  /\ Len(sp.lines) = i
            /\ \A k \in 1..Len(sp.lines) :
                  LET items == ParseObject(sp.lines[k]).items
                  IN  /\ Keys(items) = columns
                      /\ \A c \in 1..Len(columns) :
                            /\ items[c][1] = columns[c]
                            /\ items[c][2] = table[k][c]
                            /\ \A d \in 1..Len(items) : items[d][1] = columns[c] => d = c

Wit_C2 == pc = "loop" /\ i >= 1 /\ Len(columns) = 2

(* C3: export overwrites: whatever the destination held, a successful run  *)
(* leaves exactly the encoding of the current rows; if the destination     *)
(* already held the export of the same rows the result is identical.       *)
Thm_C3_Overwrite ==
    pc = "done" =>
        /\ FileIsTable(out, columns, table)
        /\ (FileIsTable(out0, columns, table) => out = out0)

Wit_C3 ==
    /\ pc = "done"
    /\ runs = 2
    /\ out0 # <<>>
    /\ table # <<>>
    /\ \E r \in RowsOf(columns) : FileIsTable(out0, columns, <<r>> \o table)
    /\ out # out0

(* C4: an existing table with zero rows, with a destination that can be    *)
(* opened for writing: the run completes and the destination exists and is *)
(* zero-length, whatever it held before.                                   *)
Thm_C4_EmptyTable ==
    (Stopped /\ db0 = "table" /\ table = <<>> /\ destWritable) =>
        /\ pc = "done"
        /\ err = "none"
        /\ destExists
        /\ out = <<>>

Wit_C4 == pc = "done" /\ table = <<>> /\ out0 # <<>>

(* C5 (as stated): a missing store file makes the run fail at the connect  *)
(* stage and leaves the destination untouched.                             *)
Cex_C5_MissingStoreFailsAtConnect ==
    (Stopped /\ db0 = "absent") =>
        /\ pc = "failed"
        /\ err = "connect"
        /\ DestUntouched

(* C6: the store opens but has no table smtp_sessions: the run fails at    *)
(* the query stage, before the destination is opened; the destination is   *)
(* as it was and nothing is written.                                       *)
Thm_C6_MissingTable ==
    (Stopped /\ db0 \in {"absent", "notable"}) =>
        /\ pc = "failed"
        /\ err = "query"
        /\ ~outOpen
        /\ DestUntouched

Wit_C6 == pc = "failed" /\ db0 = "notable" /\ out0 # <<>>

(* C7: when a row cannot be serialized the run aborts at the first such    *)
(* row k: the error is surfaced, the lines of rows 1..k-1 stay in the      *)
(* destination, no later row is written, the prior content is gone.        *)
Thm_C7_AbortAtFailingRow ==
    /\ (Stopped /\ db0 = "table" /\ destWritable
          /\ \E k \in 1..Len(table) : ~RowSerializable(table[k]))
       => (pc = "failed" /\ err = "serialize")
    /\ (pc = "failed" /\ err = "serialize") =>
          LET sp == SplitLines(out)
          IN  /\ i < Len(table)
              /\ ~RowSerializable(table[i + 1])
              /\ \A k \in 1..i : RowSerializable(table[k])
              /\ Len(sp.lines) = i
              /\ \A k \in 1..i : LineIsRow(sp.lines[k], columns, table[k])
              /\ ~ParseObject(sp.rest).ok
              /\ \A k \in 1..Len(sp.rest) : sp.rest[k] # "}"
              /\ (out0 = StaleContent => out # out0)

Wit_C7 ==
    /\ pc = "failed"
    /\ err = "serialize"
    /\ i >= 1
    /\ i + 1 < Len(table)
    /\ out0 = StaleContent

(* C8 (as stated): when the operation ends, on any path, the store         *)
(* connection and the output file handle have been released.               *)
Cex_C8_ResourcesReleased == Stopped => (~connOpen /\ ~outOpen)

(* C9 (as stated): whenever the run stops after the destination was        *)
(* opened, the file is complete newline-terminated JSON lines for a prefix *)
(* of the fetched rows; no partial line is left.                           *)
Cex_C9_NoPartialLine ==
    (pc = "done" \/ (pc = "failed" /\ err = "serialize")) =>
        LET sp == SplitLines(out)
        IN  /\ sp.rest = <<>>
            /\ Len(sp.lines) <= Len(table)
            /\ \A k \in 1..Len(sp.lines) : LineIsRow(sp.lines[k], columns, table[k])

(* C10 (as stated): no step of export_logs changes the source store. *)
Cex_C10_StoreReadOnly == [][ExportStep => UNCHANGED store]_vars

====
